---- MODULE Spec2Model ----
(***************************************************************************)
(* toy-query-engine: the operator-chain evaluator of src/src/operators.rs  *)
(* over the Row/Cell model of src/src/table.rs and the three datasets of   *)
(* src/src/data.rs.                                                        *)
(*                                                                         *)
(* process_operator is recursive: every verb first evaluates its           *)
(* predecessor chain and then does its own work.  The recursion therefore  *)
(* unwinds innermost-first, and the model takes one step per node of the   *)
(* chain in that order: `chain` is the part of the operator chain that has *)
(* been evaluated, results[i] is what process_operator returned for the    *)
(* first i nodes.                                                          *)
(*                                                                         *)
(* Indices are 1-based here and 0-based in the Rust source; index 0 stands *)
(* for Option::None of find_column_index_by_name.                          *)
(*                                                                         *)
(* The parser of src/src/commands.rs is modelled next to it: parse_command *)
(* on one input line, one step per iteration of the token loop of          *)
(* parse_operators.  A token is the sequence of the pieces that            *)
(* split(",") gives for it, so "FROM" is <<"FROM">>, "a,b" is <<"a", "b">> *)
(* and "," is <<"", "">>.                                                  *)
(***************************************************************************)
EXTENDS Integers, Sequences, FiniteSets, TLC

\* Number of records in a data file is at most MaxRows.
MaxRows == 3
\* Number of verbs that follow FROM in a chain is at most MaxOps.
MaxOps == 2
\* TAKE counts range over 0..MaxCount.
MaxCount == 2
\* Number of JOIN verbs in a chain of JOINs is at most MaxJoins.
MaxJoins == 3
\* Number of tokens of an input line is at most MaxTokens.
MaxTokens == 4
\* Number of tokens that follow `FROM <file>` in a line that starts a chain is
\* at most MaxRest.
MaxRest == 4

VARIABLES
    files,      \* files[d]: the records of data/<d>.csv, in file order
    chain,      \* the operator chain evaluated so far, innermost (FROM) first
    results,    \* results[i]: outcome of process_operator on SubSeq(chain, 1, i)
    loads,      \* number of calls of load_dataset made by this evaluation
    line,       \* the line handed to parse_command
    token_iter, \* index of the token that token_iter.next() yields
    parse_chain,\* the local `chain` of parse_operators, <<>> for None
    command     \* what parse_command returns, once it has returned

\* The state of parse_command / parse_operators.
pvars == <<line, token_iter, parse_chain, command>>

vars == <<files, chain, results, loads, line, token_iter, parse_chain, command>>

----------------------------------------------------------------------------
(* Cell, Row, Table : src/src/table.rs *)

CellString(s) == [tag |-> "String", s |-> s, n |-> 0, some |-> TRUE]
CellInt64(n) == [tag |-> "Int64", s |-> "", n |-> n, some |-> TRUE]
CellOptInt64(some, n) ==
    [tag |-> "OptInt64", s |-> "", n |-> IF some THEN n ELSE 0, some |-> some]

Contains(seq, x) == \E i \in 1..Len(seq) : seq[i] = x

\* Table::find_column_index_by_name: first index of name in header, 0 for None.
find_column_index_by_name(header, name) ==
    IF Contains(header, name)
    THEN CHOOSE i \in 1..Len(header) :
            /\ header[i] = name
            /\ \A j \in 1..(i - 1) : header[j] # name
    ELSE 0

----------------------------------------------------------------------------
(* Datasets : src/src/data.rs *)

Datasets == {"City", "Country", "Language"}

column_names(d) ==
    CASE d = "City" -> <<"CityID", "CityName", "CountryCode", "CityPop">>
      [] d = "Country" ->
            <<"CountryCode", "CountryName", "Continent", "CountryPop", "Capital">>
      [] d = "Language" -> <<"CountryCode", "Language">>

numeric_columns(d) ==
    CASE d = "City" -> <<"CityID", "CityPop">>
      [] d = "Country" -> <<"CountryPop", "Capital">>
      [] d = "Language" -> <<>>

\* The i-th record of each data file.  The values are chosen so that a file
\* holds equal and unequal sort keys, keys in ascending order, join keys with
\* zero, one and several partners, and a country without a capital.
Pick(seq, i) == seq[((i - 1) % Len(seq)) + 1]

CityRecord(i) ==
    [CityID |-> i,
     CityName |-> Pick(<<"Kabul", "Herat", "Haag", "Utrecht">>, i),
     CountryCode |-> IF i <= 2 THEN "AFG" ELSE "NLD",
     CityPop |-> IF i <= 2 THEN 5 ELSE 9]

CountryRecord(i) ==
    [CountryCode |-> Pick(<<"AFG", "NLD", "ATA", "ABW">>, i),
     CountryName |-> Pick(<<"Afghanistan", "Netherlands", "Antarctica", "Aruba">>, i),
     Continent |-> Pick(<<"Asia", "Europe", "Antarctica", "North_America">>, i),
     CountryPop |-> Pick(<<22, 15, 0, 1>>, i),
     CapitalSome |-> (i % 4) # 3,
     Capital |-> Pick(<<1, 5, 0, 129>>, i)]

LanguageRecord(i) ==
    [CountryCode |-> Pick(<<"AFG", "NLD", "ABW", "ABW">>, i),
     Language |-> Pick(<<"Dari", "Dutch", "Dutch", "English">>, i)]

Record(d, i) ==
    CASE d = "City" -> CityRecord(i)
      [] d = "Country" -> CountryRecord(i)
      [] d = "Language" -> LanguageRecord(i)

\* `record.into()`: the Row of a record, one Cell per column of the schema.
IntoRow(d, r) ==
    CASE d = "City" ->
            <<CellInt64(r.CityID), CellString(r.CityName),
              CellString(r.CountryCode), CellInt64(r.CityPop)>>
      [] d = "Country" ->
            <<CellString(r.CountryCode), CellString(r.CountryName),
              CellString(r.Continent), CellInt64(r.CountryPop),
              CellOptInt64(r.CapitalSome, r.Capital)>>
      [] d = "Language" ->
            <<CellString(r.CountryCode), CellString(r.Language)>>

----------------------------------------------------------------------------
(* Outcomes of process_operator: Ok(Table), Err(OperatorError), or a panic *)

NoError ==
    [type |-> "", operator |-> "", column_name |-> "", chain |-> <<>>, dataset |-> ""]

OkTable(header, numeric, rows) ==
    [kind |-> "Ok", header |-> header, numeric_columns |-> numeric,
     rows |-> rows, error |-> NoError]

Failure(kind, error) ==
    [kind |-> kind, header |-> <<>>, numeric_columns |-> <<>>,
     rows |-> <<>>, error |-> error]

CSVError(dataset, operator) ==
    Failure("Err", [type |-> "CSVError", operator |-> operator,
                    column_name |-> "", chain |-> <<>>, dataset |-> dataset])

\* Bug variant: the error is built without the chain.
NoSuchColumn_WithoutChain(operator, ch, column_name) ==
    Failure("Err", [type |-> "NoSuchColumn", operator |-> operator,
                    column_name |-> column_name, chain |-> <<>>, dataset |-> ""])

NoSuchColumn(operator, ch, column_name) ==
    Failure("Err", [type |-> "NoSuchColumn", operator |-> operator,
                    column_name |-> column_name, chain |-> ch, dataset |-> ""])

OrderByColumnNotNumeric(column_name) ==
    Failure("Err", [type |-> "OrderByColumnNotNumeric", operator |-> "",
                    column_name |-> column_name, chain |-> <<>>, dataset |-> ""])

\* unreachable!() or an index out of bounds: the thread panics, nothing is returned.
Panic(why) ==
    Failure("Panic", [type |-> why, operator |-> "", column_name |-> "",
                      chain |-> <<>>, dataset |-> ""])

----------------------------------------------------------------------------
(* Operator nodes *)

OpFrom(d) ==
    [verb |-> "FROM", dataset |-> d, column_names |-> <<>>, count |-> 0, column |-> ""]
OpSelect(names) ==
    [verb |-> "SELECT", dataset |-> "", column_names |-> names, count |-> 0, column |-> ""]
OpTake(count) ==
    [verb |-> "TAKE", dataset |-> "", column_names |-> <<>>, count |-> count, column |-> ""]
OpOrderBy(column) ==
    [verb |-> "ORDERBY", dataset |-> "", column_names |-> <<>>, count |-> 0, column |-> column]
OpCountBy(column) ==
    [verb |-> "COUNTBY", dataset |-> "", column_names |-> <<>>, count |-> 0, column |-> column]
OpJoin(d, column) ==
    [verb |-> "JOIN", dataset |-> d, column_names |-> <<>>, count |-> 0, column |-> column]

----------------------------------------------------------------------------
(* load_dataset, process_from *)

\* `loaded` is whether load_cities / load_countries / load_languages returned Ok.
load_dataset(fs, dataset, operator, loaded) ==
    IF loaded
    THEN OkTable(column_names(dataset), numeric_columns(dataset),
                 [i \in 1..Len(fs[dataset]) |-> IntoRow(dataset, fs[dataset][i])])
    ELSE CSVError(dataset, operator)

process_from(fs, dataset, loaded) == load_dataset(fs, dataset, "FROM", loaded)

----------------------------------------------------------------------------
(* process_take *)

Min(a, b) == IF a < b THEN a ELSE b

\* Bug variant: one row too many.
TakeRows_OffByOne(rows, count) == SubSeq(rows, 1, Min(count + 1, Len(rows)))

\* Bug variant: the right number of rows, taken from the end.
TakeRows_FromEnd(rows, count) ==
    SubSeq(rows, Len(rows) - Min(count, Len(rows)) + 1, Len(rows))

\* table.rows.iter().take(count).map(|row| row.clone()).collect()
TakeRows(rows, count) == SubSeq(rows, 1, Min(count, Len(rows)))

\* Bug variant: a failed predecessor chain is answered with a table.
process_take_MasksError(input, count) ==
    OkTable(input.header, input.numeric_columns, TakeRows(input.rows, count))

process_take(input, count) ==
    IF input.kind # "Ok" THEN input
    ELSE OkTable(input.header, input.numeric_columns, TakeRows(input.rows, count))

----------------------------------------------------------------------------
(* find_column_index, process_select *)

\* Bug variant: the last column of that name instead of the first.
find_column_index_LastMatch(header, name) ==
    IF Contains(header, name)
    THEN CHOOSE i \in 1..Len(header) :
            /\ header[i] = name
            /\ \A j \in (i + 1)..Len(header) : header[j] # name
    ELSE 0

\* find_column_index: Ok(index) is the index, Err(NoSuchColumn) is index 0 with
\* the error built by the caller's `?` from NoSuchColumn(current_operator, chain, name).
find_column_index(header, name) == find_column_index_by_name(header, name)

\* Bug variant: the absent names in reverse order, the last one reported first.
Absent_LastFirst(header, names) ==
    LET absent == SelectSeq(names, LAMBDA nm : ~Contains(header, nm))
    IN  [k \in 1..Len(absent) |-> absent[Len(absent) + 1 - k]]

\* Names of `names` that are absent from `header`, in requested order.
Absent(header, names) == SelectSeq(names, LAMBDA nm : ~Contains(header, nm))

\* Bug variant: the input's numeric columns are passed through unfiltered.
SelectNumeric_Unfiltered(numeric, names) == numeric

\* column_names.iter().filter(|name| table.numeric_columns.contains(name))
SelectNumeric(numeric, names) ==
    SelectSeq(names, LAMBDA nm : Contains(numeric, nm))

process_select(input, ch, names) ==
    IF input.kind # "Ok" THEN input
    ELSE IF Absent(input.header, names) # <<>>
    THEN NoSuchColumn("Select", ch, Head(Absent(input.header, names)))
    ELSE LET col_indices ==
                 [k \in 1..Len(names) |-> find_column_index(input.header, names[k])]
             \* row.cells[*index]: past the row's cells this is a panic
             fits(row) == \A k \in 1..Len(names) : col_indices[k] <= Len(row)
         IN  IF \E i \in 1..Len(input.rows) : ~fits(input.rows[i])
             THEN Panic("index out of bounds")
             ELSE OkTable(names,
                          SelectNumeric(input.numeric_columns, names),
                          [i \in 1..Len(input.rows) |->
                              [k \in 1..Len(names) |-> input.rows[i][col_indices[k]]]])

----------------------------------------------------------------------------
(* sort_table, process_orderby *)

\* rows.sort_by(|a, b| b_val.cmp(&a_val)): a stable sort, descending in the
\* Int64 value at col_index.  The comparator runs only on slices of two or
\* more rows, and then on every row; it panics on a row whose cell at
\* col_index is missing (index out of bounds) or is not Cell::Int64
\* (unreachable!()).
\* Bug variant: a_val.cmp(&b_val), ascending.
SortedPosition_Ascending(vals, i) ==
    1 + Cardinality({j \in 1..Len(vals) : vals[j] < vals[i]})
      + Cardinality({j \in 1..(i - 1) : vals[j] = vals[i]})

\* Bug variant: an unstable sort that reverses rows of equal value.
SortedPosition_Unstable(vals, i) ==
    1 + Cardinality({j \in 1..Len(vals) : vals[j] > vals[i]})
      + Cardinality({j \in (i + 1)..Len(vals) : vals[j] = vals[i]})

\* Where the stable sort on b_val.cmp(&a_val) puts the i-th row: after every
\* row of greater value and after the earlier rows of equal value.
SortedPosition(vals, i) ==
    1 + Cardinality({j \in 1..Len(vals) : vals[j] > vals[i]})
      + Cardinality({j \in 1..(i - 1) : vals[j] = vals[i]})

\* Bug variant: rows of equal value all become copies of the first of them.
sort_table_CopiesTies(rows, col_index) ==
    LET n == Len(rows)
        vals == [i \in 1..n |-> rows[i][col_index].n]
        first(i) == CHOOSE j \in 1..n :
                        /\ vals[j] = vals[i]
                        /\ \A k \in 1..(j - 1) : vals[k] # vals[i]
    IN  IF n < 2 THEN [panic |-> "", rows |-> rows]
        ELSE IF \E i \in 1..n : col_index > Len(rows[i])
        THEN [panic |-> "index out of bounds", rows |-> <<>>]
        ELSE IF \E i \in 1..n : rows[i][col_index].tag # "Int64"
        THEN [panic |-> "unreachable", rows |-> <<>>]
        ELSE [panic |-> "",
              rows |-> [p \in 1..n |->
                           rows[first(CHOOSE i \in 1..n : SortedPosition(vals, i) = p)]]]

sort_table(rows, col_index) ==
    LET n == Len(rows)
        vals == [i \in 1..n |-> rows[i][col_index].n]
        pos(i) == SortedPosition(vals, i)
    IN  IF n < 2 THEN [panic |-> "", rows |-> rows]
        ELSE IF \E i \in 1..n : col_index > Len(rows[i])
        THEN [panic |-> "index out of bounds", rows |-> <<>>]
        ELSE IF \E i \in 1..n : rows[i][col_index].tag # "Int64"
        THEN [panic |-> "unreachable", rows |-> <<>>]
        ELSE [panic |-> "",
              rows |-> [p \in 1..n |-> rows[CHOOSE i \in 1..n : pos(i) = p]]]

\* Bug variant: the column is looked up before it is tested for being numeric.
process_orderby_LookupFirst(input, ch, column) ==
    IF input.kind # "Ok" THEN input
    ELSE IF find_column_index(input.header, column) = 0
    THEN NoSuchColumn("ORDERBY", ch, column)
    ELSE IF ~Contains(input.numeric_columns, column)
    THEN OrderByColumnNotNumeric(column)
    ELSE LET sorted == sort_table(input.rows, find_column_index(input.header, column))
         IN  IF sorted.panic # "" THEN Panic(sorted.panic)
             ELSE OkTable(input.header, input.numeric_columns, sorted.rows)

process_orderby(input, ch, column) ==
    IF input.kind # "Ok" THEN input
    ELSE IF ~Contains(input.numeric_columns, column)
    THEN OrderByColumnNotNumeric(column)
    ELSE IF find_column_index(input.header, column) = 0
    THEN NoSuchColumn("ORDERBY", ch, column)
    ELSE LET sorted == sort_table(input.rows, find_column_index(input.header, column))
         IN  IF sorted.panic # "" THEN Panic(sorted.panic)
             ELSE OkTable(input.header, input.numeric_columns, sorted.rows)

----------------------------------------------------------------------------
(* process_countby *)

\* The keys of the HashMap<Cell, usize> built by the fold.
HistogramKeys(rows, col_index) == {rows[i][col_index] : i \in 1..Len(rows)}

\* HashMap::into_iter visits the entries in an arbitrary order: every
\* enumeration of the keys is possible.
IterationOrders(keys) ==
    {order \in [1..Cardinality(keys) -> keys] :
        \A key \in keys : \E i \in 1..Cardinality(keys) : order[i] = key}

\* The iteration orders the HashMap of COUNTBY `column` on `input` can have
\* (<<>> alone when process_countby returns before building it).
CountByOrders(input, column) ==
    IF input.kind = "Ok" /\ Contains(input.header, column)
       /\ \A i \in 1..Len(input.rows) :
             find_column_index(input.header, column) <= Len(input.rows[i])
    THEN IterationOrders(
             HistogramKeys(input.rows, find_column_index(input.header, column)))
    ELSE {<<>>}

\* Bug variant: entry(..).or_insert(1) followed by += 1.
Occurrences_StartAtOne(rows, col_index, key) ==
    1 + Cardinality({i \in 1..Len(rows) : rows[i][col_index] = key})

\* *m.entry(x.cells[col_index].clone()).or_default() += 1, over all rows
Occurrences(rows, col_index, key) ==
    Cardinality({i \in 1..Len(rows) : rows[i][col_index] = key})

\* Bug variant: the counted column is never numeric in the output.
CountByNumeric_CountOnly(numeric, column) == <<"count">>

\* numeric_columns: if table.numeric_columns.contains(&column) { ... } else { ... }
CountByNumeric(numeric, column) ==
    IF Contains(numeric, column) THEN <<column, "count">> ELSE <<"count">>

process_countby(input, ch, column, order) ==
    IF input.kind # "Ok" THEN input
    ELSE IF find_column_index(input.header, column) = 0
    THEN NoSuchColumn("COUNTBY", ch, column)
    ELSE LET col_index == find_column_index(input.header, column)
             histogram ==
                 [k \in 1..Len(order) |->
                     <<order[k], CellInt64(Occurrences(input.rows, col_index, order[k]))>>]
             \* sort_table(&mut histogram, col_index): the index of `column`
             \* in the input table, not of "count" in the histogram
             sorted == sort_table(histogram, col_index)
         IN  IF \E i \in 1..Len(input.rows) : col_index > Len(input.rows[i])
             THEN Panic("index out of bounds")
             ELSE IF sorted.panic # "" THEN Panic(sorted.panic)
             ELSE OkTable(<<column, "count">>,
                          CountByNumeric(input.numeric_columns, column),
                          sorted.rows)

----------------------------------------------------------------------------
(* process_join *)

\* The elements of seq, in order, without those at the indices in `drop`.
Without(seq, drop) ==
    LET keep == {i \in 1..Len(seq) : i \notin drop}
        nth(k) == CHOOSE i \in keep : Cardinality({j \in keep : j < i}) = k - 1
    IN  [k \in 1..Cardinality(keep) |-> seq[nth(k)]]

\* Bug variant: the rows of the last left row come first.
RECURSIVE Flatten_LastFirst(_)
Flatten_LastFirst(seqs) ==
    IF seqs = <<>> THEN <<>> ELSE Flatten_LastFirst(Tail(seqs)) \o Head(seqs)

\* The concatenation of the sequences of a sequence of sequences.
RECURSIVE Flatten(_)
Flatten(seqs) == IF seqs = <<>> THEN <<>> ELSE Head(seqs) \o Flatten(Tail(seqs))

\* Bug variant: the right row's join cell is not skipped.
JoinedRow_KeepsKey(left_row, right_row, right_index) == left_row \o right_row

\* left_row.clone() followed by the right row's cells except the one at right_index
JoinedRow(left_row, right_row, right_index) ==
    left_row \o Without(right_row, {right_index})

\* Bug variant: the join column of the right table is kept.
WithoutName_KeepsAll(names, column) == names

\* for name in names { if *name != column { push(name.clone()) } }
WithoutName(names, column) == SelectSeq(names, LAMBDA nm : nm # column)

\* `right` is the outcome of load_dataset(dataset, "JOIN"); it is only
\* looked at once the left chain has returned Ok.
process_join(left, ch, right, column) ==
    IF left.kind # "Ok" THEN left
    ELSE IF right.kind # "Ok" THEN right
    ELSE IF ~(Contains(left.header, column) /\ Contains(right.header, column))
    THEN NoSuchColumn("JOIN", ch, column)
    ELSE LET left_index == find_column_index_by_name(left.header, column)
             right_index == find_column_index_by_name(right.header, column)
             header == left.header \o WithoutName(right.header, column)
             numeric ==
                 left.numeric_columns \o WithoutName(right.numeric_columns, column)
             matches(left_row) ==
                 SelectSeq(right.rows,
                           LAMBDA right_row : left_row[left_index] = right_row[right_index])
             joined(left_row) ==
                 [k \in 1..Len(matches(left_row)) |->
                     JoinedRow(left_row, matches(left_row)[k], right_index)]
         IN  IF \E i \in 1..Len(left.rows) : left_index > Len(left.rows[i])
             THEN Panic("index out of bounds")
             ELSE OkTable(header, numeric,
                          Flatten([i \in 1..Len(left.rows) |-> joined(left.rows[i])]))

----------------------------------------------------------------------------
(* Tokens, Command, the match arms of parse_operators : src/src/commands.rs *)

\* Option::None of token_iter.next(); a token has at least one piece.
None == <<>>

Token(word) == <<word>>

\* token_iter.next() when the iterator stands at index p of tokens.
NextToken(tokens, p) == IF p <= Len(tokens) THEN tokens[p] ELSE None

\* The file names FROM and JOIN match on; "" when no arm matches.
DatasetOfToken(token) ==
    CASE token = Token("language.csv") -> "Language"
      [] token = Token("city.csv") -> "City"
      [] token = Token("country.csv") -> "Country"
      [] OTHER -> ""

\* str::parse::<usize> on the tokens of one decimal digit; -1 stands for Err
\* (every other token the model feeds it holds a non-digit).
Digits == <<"0", "1", "2", "3", "4", "5", "6", "7", "8", "9">>
ParseUsize(token) ==
    IF Len(token) = 1 /\ Contains(Digits, token[1])
    THEN (CHOOSE i \in 1..Len(Digits) : Digits[i] = token[1]) - 1
    ELSE -1

\* Bug variant: the empty pieces are kept.
SplitColumns_KeepsEmpty(token) == token

\* columns.split(",").filter(|s| !s.is_empty())
SplitColumns(token) == SelectSeq(token, LAMBDA piece : piece # "")

\* An error string: its fixed text, the token formatted into it (None when
\* there is none) and the token list formatted into it (tokens.join(" ")).
Message(text, token, tokens) == [text |-> text, token |-> token, tokens |-> tokens]

NoMessage == Message("", None, <<>>)

InvalidInput(tokens) == Message("Invalid Input: {}", None, tokens)

\* What one iteration of the `while let` loop does: it either assigns `chain`
\* and leaves the iterator at `pos`, or returns Err(message).
Chained(ch, p) == [err |-> FALSE, chain |-> ch, pos |-> p, message |-> NoMessage]
ReturnErr(message) == [err |-> TRUE, chain |-> <<>>, pos |-> 0, message |-> message]

\* The arms take the token list, the index p the iterator stands at once the
\* verb has been read, and the chain built so far.
\* Bug variant: a FROM after the first verb starts the chain afresh.
parse_from_Restarts(tokens, p, ch) ==
    IF DatasetOfToken(NextToken(tokens, p)) # ""
    THEN Chained(<<OpFrom(DatasetOfToken(NextToken(tokens, p)))>>, p + 1)
    ELSE ReturnErr(Message("Invalid argument to FROM: {:?}", NextToken(tokens, p), <<>>))

parse_from(tokens, p, ch) ==
    IF ch # <<>>
    THEN ReturnErr(Message("FROM must always be the first operator.", None, <<>>))
    ELSE IF DatasetOfToken(NextToken(tokens, p)) # ""
    THEN Chained(<<OpFrom(DatasetOfToken(NextToken(tokens, p)))>>, p + 1)
    ELSE ReturnErr(Message("Invalid argument to FROM: {:?}", NextToken(tokens, p), <<>>))

parse_select(tokens, p, ch) ==
    IF NextToken(tokens, p) = None
    THEN ReturnErr(Message("SELECT takes at least one column name to select on.",
                           None, <<>>))
    ELSE IF ch = <<>>
    THEN ReturnErr(Message(
             "SELECT can't be the first command; It must be preceded by at least a FROM.",
             None, <<>>))
    ELSE Chained(Append(ch, OpSelect(SplitColumns(NextToken(tokens, p)))), p + 1)

\* Bug variant: TAKE does not test whether a chain precedes it.
parse_take_WithoutChain(tokens, p, ch) ==
    IF NextToken(tokens, p) = None
    THEN ReturnErr(Message("TAKE must be followed by the number of rows to take.",
                           None, <<>>))
    ELSE IF ParseUsize(NextToken(tokens, p)) < 0
    THEN ReturnErr(Message(
             "Invalid value passed to TAKE operator: {}. Must be a positive integer.\n Full error message: invalid digit found in string",
             NextToken(tokens, p), <<>>))
    ELSE Chained(Append(ch, OpTake(ParseUsize(NextToken(tokens, p)))), p + 1)

parse_take(tokens, p, ch) ==
    IF NextToken(tokens, p) = None
    THEN ReturnErr(Message("TAKE must be followed by the number of rows to take.",
                           None, <<>>))
    ELSE IF ch = <<>>
    THEN ReturnErr(Message(
             "TAKE can't be the first command; It must be preceded by at least a FROM.",
             None, <<>>))
    ELSE IF ParseUsize(NextToken(tokens, p)) < 0
    THEN ReturnErr(Message(
             "Invalid value passed to TAKE operator: {}. Must be a positive integer.\n Full error message: invalid digit found in string",
             NextToken(tokens, p), <<>>))
    ELSE Chained(Append(ch, OpTake(ParseUsize(NextToken(tokens, p)))), p + 1)

\* Bug variant: ORDERBY refuses a verb keyword as its column.
parse_orderby_RejectsKeywords(tokens, p, ch) ==
    IF NextToken(tokens, p) = None
          \/ NextToken(tokens, p) \in {Token("FROM"), Token("SELECT"), Token("TAKE"),
                                       Token("ORDERBY"), Token("COUNTBY"), Token("JOIN")}
    THEN ReturnErr(Message(
             "ORDERBY must be followed by the name of the column to order by.",
             None, <<>>))
    ELSE IF ch = <<>>
    THEN ReturnErr(Message(
             "ORDERBY can't be the first command; It must be preceded by at least a FROM.",
             None, <<>>))
    ELSE Chained(Append(ch, OpOrderBy(NextToken(tokens, p))), p + 1)

\* Bug variant: ORDERBY wraps the FROM leaf and drops the verbs in between.
parse_orderby_DropsVerbs(tokens, p, ch) ==
    IF NextToken(tokens, p) = None
    THEN ReturnErr(Message(
             "ORDERBY must be followed by the name of the column to order by.",
             None, <<>>))
    ELSE IF ch = <<>>
    THEN ReturnErr(Message(
             "ORDERBY can't be the first command; It must be preceded by at least a FROM.",
             None, <<>>))
    ELSE Chained(<<ch[1], OpOrderBy(NextToken(tokens, p))>>, p + 1)

parse_orderby(tokens, p, ch) ==
    IF NextToken(tokens, p) = None
    THEN ReturnErr(Message(
             "ORDERBY must be followed by the name of the column to order by.",
             None, <<>>))
    ELSE IF ch = <<>>
    THEN ReturnErr(Message(
             "ORDERBY can't be the first command; It must be preceded by at least a FROM.",
             None, <<>>))
    ELSE Chained(Append(ch, OpOrderBy(NextToken(tokens, p))), p + 1)

parse_countby(tokens, p, ch) ==
    IF NextToken(tokens, p) = None
    THEN ReturnErr(Message(
             "COUNTBY must be followed by the name of the column to count.",
             None, <<>>))
    ELSE IF ch = <<>>
    THEN ReturnErr(Message(
             "COUNTBY can't be the first command; It must be preceded by at least a FROM.",
             None, <<>>))
    ELSE Chained(Append(ch, OpCountBy(NextToken(tokens, p))), p + 1)

\* Bug variant: an unrecognized dataset token is answered like a missing one.
parse_join_OneMessage(tokens, p, ch) ==
    IF ch = <<>>
    THEN ReturnErr(Message(
             "JOIN can't be the first command; It must be preceded by at least a FROM.",
             None, <<>>))
    ELSE IF DatasetOfToken(NextToken(tokens, p)) = "" \/ NextToken(tokens, p + 1) = None
    THEN ReturnErr(Message(
             "JOIN must be followed by the dataset and the name of the column to join on.",
             None, <<>>))
    ELSE Chained(Append(ch, OpJoin(DatasetOfToken(NextToken(tokens, p)),
                                   NextToken(tokens, p + 1))),
                 p + 2)

parse_join(tokens, p, ch) ==
    IF ch = <<>>
    THEN ReturnErr(Message(
             "JOIN can't be the first command; It must be preceded by at least a FROM.",
             None, <<>>))
    ELSE IF NextToken(tokens, p) = None
    THEN ReturnErr(Message(
             "JOIN must be followed by the dataset and the name of the column to join on.",
             None, <<>>))
    ELSE IF DatasetOfToken(NextToken(tokens, p)) = ""
    THEN ReturnErr(Message("Invalid dataset to JOIN on: {}", NextToken(tokens, p), <<>>))
    ELSE IF NextToken(tokens, p + 1) = None
    THEN ReturnErr(Message(
             "JOIN must be followed by the dataset and the name of the column to join on.",
             None, <<>>))
    ELSE Chained(Append(ch, OpJoin(DatasetOfToken(NextToken(tokens, p)),
                                   NextToken(tokens, p + 1))),
                 p + 2)

\* Command, and the two stages before parse_command has returned: not yet
\* called, and inside the loop of parse_operators.
CommandOf(kind, operator, message) ==
    [kind |-> kind, operator |-> operator, message |-> message]

Unparsed == CommandOf("Unparsed", <<>>, NoMessage)
Parsing == CommandOf("Parsing", <<>>, NoMessage)
CommandHelp == CommandOf("Help", <<>>, NoMessage)
CommandExit == CommandOf("Exit", <<>>, NoMessage)
CommandNoInput == CommandOf("NoInput", <<>>, NoMessage)
CommandOperator(operator) == CommandOf("Operator", operator, NoMessage)
CommandInputError(message) == CommandOf("InputError", <<>>, message)

\* An input line: its whitespace-separated tokens and its form,
\*   "plain"        the tokens separated by single blanks, then "\n";
\*   "padded"       the same with more whitespace somewhere, then "\n";
\*   "unterminated" no "\n" at the end.
Line(tokens, form) == [tokens |-> tokens, form |-> form]

\* parse_command up to the call of parse_operators.
parse_command(input) ==
    IF input.form = "unterminated" THEN CommandNoInput
    ELSE IF input.form = "plain" /\ input.tokens = <<Token("help")>> THEN CommandHelp
    ELSE IF input.form = "plain" /\ input.tokens = <<Token("exit")>> THEN CommandExit
    ELSE IF input.tokens = <<>> THEN CommandNoInput
    ELSE Parsing

\* One iteration of the loop of parse_operators: the arm the token at index p
\* selects, applied to the tokens after it.
MatchArm(tokens, p, ch) ==
    CASE tokens[p] = Token("FROM") -> parse_from(tokens, p + 1, ch)
      [] tokens[p] = Token("SELECT") -> parse_select(tokens, p + 1, ch)
      [] tokens[p] = Token("TAKE") -> parse_take(tokens, p + 1, ch)
      [] tokens[p] = Token("ORDERBY") -> parse_orderby(tokens, p + 1, ch)
      [] tokens[p] = Token("COUNTBY") -> parse_countby(tokens, p + 1, ch)
      [] tokens[p] = Token("JOIN") -> parse_join(tokens, p + 1, ch)
      [] OTHER -> ReturnErr(InvalidInput(tokens))

\* parse_operators from index p on, with the chain built so far, wrapped into
\* a Command as parse_command does.
RECURSIVE parse_operators(_, _, _)
parse_operators(tokens, p, ch) ==
    IF p > Len(tokens)
    THEN IF ch # <<>> THEN CommandOperator(ch)
         ELSE CommandInputError(InvalidInput(tokens))
    ELSE LET arm == MatchArm(tokens, p, ch)
         IN  IF arm.err THEN CommandInputError(arm.message)
             ELSE parse_operators(tokens, arm.pos, arm.chain)

\* parse_command from the line to the Command it returns.
ParseLine(input) ==
    IF parse_command(input) = Parsing
    THEN parse_operators(input.tokens, 1, <<>>)
    ELSE parse_command(input)

----------------------------------------------------------------------------
(* Display of Operator *)

\* A rendered text is the sequence of its words, the strings between single
\* blanks; a word is the sequence of its split(",") pieces, so the empty
\* string is the word <<"">>.

\* Display of Dataset: the file name.
DisplayDataset(dataset) ==
    CASE dataset = "Language" -> Token("language.csv")
      [] dataset = "City" -> Token("city.csv")
      [] dataset = "Country" -> Token("country.csv")

\* Display of usize, for the counts of one decimal digit.
DisplayUsize(count) == Token(Digits[count + 1])

\* Bug variant: the names are joined with blanks, one word each.
JoinNames_WithBlanks(names) ==
    IF names = <<>> THEN <<Token("")>>
    ELSE [k \in 1..Len(names) |-> Token(names[k])]

\* column_names.join(","), as the words it adds to the text: one word whose
\* pieces are the names, the empty string when there is no name.
JoinNames(names) ==
    IF names = <<>> THEN <<Token("")>> ELSE <<names>>

\* The words one node writes after the text of its chain.
DisplayNode(operator) ==
    CASE operator.verb = "FROM" ->
            <<Token("FROM"), DisplayDataset(operator.dataset)>>
      [] operator.verb = "SELECT" ->
            <<Token("SELECT")>> \o JoinNames(operator.column_names)
      [] operator.verb = "TAKE" ->
            <<Token("TAKE"), DisplayUsize(operator.count)>>
      [] operator.verb = "ORDERBY" -> <<Token("ORDERBY"), operator.column>>
      [] operator.verb = "COUNTBY" -> <<Token("COUNTBY"), operator.column>>
      [] operator.verb = "JOIN" ->
            <<Token("JOIN"), DisplayDataset(operator.dataset), operator.column>>

\* fmt: "{} VERB {}" with the chain first, "FROM {}" at its start.
RECURSIVE Display(_)
Display(ch) ==
    IF Len(ch) = 1 THEN DisplayNode(ch[1])
    ELSE Display(SubSeq(ch, 1, Len(ch) - 1)) \o DisplayNode(ch[Len(ch)])

\* The line made of a text and "\n": split_whitespace leaves out the empty
\* words.
LineOfText(words) ==
    Line(SelectSeq(words, LAMBDA word : word # Token("")),
         IF \E k \in 1..Len(words) : words[k] = Token("") THEN "padded"
         ELSE "plain")

----------------------------------------------------------------------------
(* State machine *)

Last(seq) == seq[Len(seq)]

\* No line is being parsed.
ParserIdle ==
    /\ line = Line(<<>>, "unterminated")
    /\ token_iter = 0
    /\ parse_chain = <<>>
    /\ command = Unparsed

Init ==
    /\ \E n \in 0..MaxRows :
          files = [d \in Datasets |-> [i \in 1..n |-> Record(d, i)]]
    /\ chain = <<>>
    /\ results = <<>>
    /\ loads = 0
    /\ ParserIdle

\* A verb other than FROM is evaluated on top of an evaluated chain that has
\* not panicked.
CanExtend ==
    /\ chain # <<>>
    /\ Len(chain) <= MaxOps
    /\ Last(results).kind # "Panic"

From(d) ==
    /\ chain = <<>>
    /\ \E loaded \in BOOLEAN :
          results' = <<process_from(files, d, loaded)>>
    /\ chain' = <<OpFrom(d)>>
    /\ loads' = loads + 1
    /\ UNCHANGED <<files, pvars>>

Take(count) ==
    /\ CanExtend
    /\ results' = Append(results, process_take(Last(results), count))
    /\ chain' = Append(chain, OpTake(count))
    /\ UNCHANGED <<files, loads, pvars>>

Select(names) ==
    /\ CanExtend
    /\ results' = Append(results, process_select(Last(results), chain, names))
    /\ chain' = Append(chain, OpSelect(names))
    /\ UNCHANGED <<files, loads, pvars>>

OrderBy(column) ==
    /\ CanExtend
    /\ results' = Append(results, process_orderby(Last(results), chain, column))
    /\ chain' = Append(chain, OpOrderBy(column))
    /\ UNCHANGED <<files, loads, pvars>>

CountBy(column) ==
    /\ CanExtend
    /\ \E order \in CountByOrders(Last(results), column) :
          results' = Append(results,
                            process_countby(Last(results), chain, column, order))
    /\ chain' = Append(chain, OpCountBy(column))
    /\ UNCHANGED <<files, loads, pvars>>

\* Bug variant: the right dataset is loaded before the left chain is evaluated,
\* hence also when the left chain returns an error.
JoinStep_LoadsFirst(d, column) ==
    /\ \E loaded \in BOOLEAN :
          results' = Append(results,
                            process_join(Last(results), chain,
                                         load_dataset(files, d, "JOIN", loaded),
                                         column))
    /\ loads' = loads + 1
    /\ chain' = Append(chain, OpJoin(d, column))
    /\ UNCHANGED <<files, pvars>>

\* Bug variant: a dataset the chain has loaded before is taken from a cache.
JoinStep_Cached(d, column) ==
    /\ IF Last(results).kind = "Ok"
       THEN /\ \E loaded \in BOOLEAN :
                  results' = Append(results,
                                    process_join(Last(results), chain,
                                                 load_dataset(files, d, "JOIN", loaded),
                                                 column))
            /\ loads' = IF \E i \in 1..Len(chain) : chain[i].dataset = d
                        THEN loads ELSE loads + 1
       ELSE /\ results' = Append(results,
                                 process_join(Last(results), chain, Last(results), column))
            /\ loads' = loads
    /\ chain' = Append(chain, OpJoin(d, column))
    /\ UNCHANGED <<files, pvars>>

\* The right dataset is loaded after the left chain returned Ok, and not at all
\* when it returned an error.
JoinStep(d, column) ==
    /\ IF Last(results).kind = "Ok"
       THEN /\ \E loaded \in BOOLEAN :
                  results' = Append(results,
                                    process_join(Last(results), chain,
                                                 load_dataset(files, d, "JOIN", loaded),
                                                 column))
            /\ loads' = loads + 1
       ELSE /\ results' = Append(results,
                                 process_join(Last(results), chain, Last(results), column))
            /\ loads' = loads
    /\ chain' = Append(chain, OpJoin(d, column))
    /\ UNCHANGED <<files, pvars>>

Join(d, column) ==
    /\ CanExtend
    /\ JoinStep(d, column)

\* Arguments the verbs are tried with.
ColumnArgs ==
    {"CityID", "CityPop", "CountryCode", "CountryPop", "Capital", "Language", "count"}
SelectArgs ==
    {<<>>, <<"CityPop">>, <<"CityPop", "CityID">>, <<"CountryCode", "Capital">>}
JoinColumnArgs == {"CountryCode", "CityPop"}

Next ==
    \/ \E d \in Datasets : From(d)
    \/ \E names \in SelectArgs : Select(names)
    \/ \E count \in 0..MaxCount : Take(count)
    \/ \E column \in ColumnArgs : OrderBy(column)
    \/ \E column \in ColumnArgs : CountBy(column)
    \/ \E d \in Datasets, column \in JoinColumnArgs : Join(d, column)

Spec == Init /\ [][Next]_vars

----------------------------------------------------------------------------
(* Chains of JOINs: FROM followed by up to MaxJoins JOIN verbs *)

CanJoin ==
    /\ chain # <<>>
    /\ Len(chain) <= MaxJoins
    /\ Last(results).kind # "Panic"

JoinAgain(d, column) ==
    /\ CanJoin
    /\ JoinStep(d, column)

NextJoins ==
    \/ \E d \in Datasets : From(d)
    \/ \E d \in Datasets, column \in JoinColumnArgs : JoinAgain(d, column)

SpecJoins == Init /\ [][NextJoins]_vars

----------------------------------------------------------------------------
(* The parser: parse_command on one input line *)

\* The state of the evaluator.
evars == <<files, chain, results, loads>>

\* Nothing is being evaluated.
EvaluatorIdle ==
    /\ files = [d \in Datasets |-> <<>>]
    /\ chain = <<>>
    /\ results = <<>>
    /\ loads = 0

\* The words input lines are made of.
Verbs == {"FROM", "SELECT", "TAKE", "ORDERBY", "COUNTBY", "JOIN"}

Vocabulary ==
    {Token(word) : word \in Verbs}
        \cup {Token("city.csv"), Token("country.csv"), Token("CityPop"), Token("2"),
              Token("help"), Token("exit"), <<"CityID", "CityPop">>, <<"", "">>,
              <<"", "CityPop">>}

\* The token lists of length n.
TokenLists(n) == [1..n -> Vocabulary]

\* The line is any line of at most MaxTokens tokens; a line of at most one
\* token may also be padded or unterminated.
ParseInit ==
    /\ EvaluatorIdle
    /\ \E n \in 0..MaxTokens :
          \E tokens \in TokenLists(n) :
              \E form \in {"plain", "padded", "unterminated"} :
                  /\ (n > 1 => form = "plain")
                  /\ line = Line(tokens, form)
    /\ token_iter = 0
    /\ parse_chain = <<>>
    /\ command = Unparsed

ParseCommand ==
    /\ command = Unparsed
    /\ command' = parse_command(line)
    /\ token_iter' = 1
    /\ UNCHANGED <<line, parse_chain, evars>>

\* The loop of parse_operators has read the token `word` as a verb.
AtVerb(word) ==
    /\ command = Parsing
    /\ token_iter <= Len(line.tokens)
    /\ line.tokens[token_iter] = Token(word)

\* The effect of one iteration: `chain = match ...`, or return Err.
Iteration(arm) ==
    /\ IF arm.err
       THEN /\ command' = CommandInputError(arm.message)
            /\ UNCHANGED <<token_iter, parse_chain>>
       ELSE /\ parse_chain' = arm.chain
            /\ token_iter' = arm.pos
            /\ UNCHANGED command
    /\ UNCHANGED <<line, evars>>

ParseFrom ==
    /\ AtVerb("FROM")
    /\ Iteration(parse_from(line.tokens, token_iter + 1, parse_chain))

ParseSelect ==
    /\ AtVerb("SELECT")
    /\ Iteration(parse_select(line.tokens, token_iter + 1, parse_chain))

ParseTake ==
    /\ AtVerb("TAKE")
    /\ Iteration(parse_take(line.tokens, token_iter + 1, parse_chain))

ParseOrderBy ==
    /\ AtVerb("ORDERBY")
    /\ Iteration(parse_orderby(line.tokens, token_iter + 1, parse_chain))

ParseCountBy ==
    /\ AtVerb("COUNTBY")
    /\ Iteration(parse_countby(line.tokens, token_iter + 1, parse_chain))

ParseJoin ==
    /\ AtVerb("JOIN")
    /\ Iteration(parse_join(line.tokens, token_iter + 1, parse_chain))

\* The `_` arm: any other token where a verb is expected.
ParseOther ==
    /\ command = Parsing
    /\ token_iter <= Len(line.tokens)
    /\ \A word \in Verbs : line.tokens[token_iter] # Token(word)
    /\ Iteration(ReturnErr(InvalidInput(line.tokens)))

\* The iterator is exhausted: the loop ends and parse_command wraps the result.
ParseEnd ==
    /\ command = Parsing
    /\ token_iter > Len(line.tokens)
    /\ command' = IF parse_chain # <<>>
                  THEN CommandOperator(parse_chain)
                  ELSE CommandInputError(InvalidInput(line.tokens))
    /\ UNCHANGED <<line, token_iter, parse_chain, evars>>

ParseNext ==
    \/ ParseCommand
    \/ ParseFrom
    \/ ParseSelect
    \/ ParseTake
    \/ ParseOrderBy
    \/ ParseCountBy
    \/ ParseJoin
    \/ ParseOther
    \/ ParseEnd

SpecParse == ParseInit /\ [][ParseNext]_vars

----------------------------------------------------------------------------
(* The parser on the lines that start a chain: FROM <file> and what follows *)

\* The line is FROM, a data file, and any list of at most MaxRest tokens.
ParseFromInit ==
    /\ EvaluatorIdle
    /\ \E file \in {Token("city.csv"), Token("country.csv")} :
          \E n \in 0..MaxRest :
              \E rest \in TokenLists(n) :
                  line = Line(<<Token("FROM"), file>> \o rest, "plain")
    /\ token_iter = 0
    /\ parse_chain = <<>>
    /\ command = Unparsed

SpecParseFrom == ParseFromInit /\ [][ParseNext]_vars

----------------------------------------------------------------------------
(* A query from line to table: parse_command on a line made of FROM, SELECT *)
(* and TAKE, then process_operator on the chain it returned                 *)

QueryVocabulary ==
    {Token("SELECT"), Token("TAKE"), Token("2"), Token("CityPop"),
     <<"CityID", "CityPop">>, <<"", "">>, <<"", "CityPop">>}

QueryInit ==
    /\ \E n \in 0..MaxRows :
          files = [d \in Datasets |-> [i \in 1..n |-> Record(d, i)]]
    /\ chain = <<>>
    /\ results = <<>>
    /\ loads = 0
    /\ \E file \in {Token("city.csv"), Token("country.csv")} :
          \E n \in 0..MaxRest :
              \E rest \in [1..n -> QueryVocabulary] :
                  line = Line(<<Token("FROM"), file>> \o rest, "plain")
    /\ token_iter = 0
    /\ parse_chain = <<>>
    /\ command = Unparsed

\* The node of the parsed chain that process_operator evaluates next: the
\* innermost one that has not been evaluated.
NextNode == command.operator[Len(chain) + 1]

\* process_operator has been called on the chain of Command::Operator and has
\* not yet returned from the node `verb`.
Evaluating(verb) ==
    /\ command.kind = "Operator"
    /\ Len(chain) < Len(command.operator)
    /\ NextNode.verb = verb

RunFrom ==
    /\ Evaluating("FROM")
    /\ From(NextNode.dataset)

RunSelect ==
    /\ Evaluating("SELECT")
    /\ Select(NextNode.column_names)

RunTake ==
    /\ Evaluating("TAKE")
    /\ Take(NextNode.count)

QueryNext ==
    \/ ParseCommand
    \/ ParseFrom
    \/ ParseSelect
    \/ ParseTake
    \/ ParseOther
    \/ ParseEnd
    \/ RunFrom
    \/ RunSelect
    \/ RunTake

SpecQuery == QueryInit /\ [][QueryNext]_vars

----------------------------------------------------------------------------
(* Properties *)

Evaluated == 1..Len(chain)

\* The input table of node i (i >= 2): what its predecessor chain returned.
InputOf(i) == results[i - 1]

IsOk(i) == results[i].kind = "Ok"

\* C1: process_operator returns a Table or an OperatorError for every chain
\* and never panics.
C1_NeverPanics ==
    \A i \in Evaluated : results[i].kind \in {"Ok", "Err"}

\* The numeric subset of each dataset as C2 gives it.
C2_NumericSubset(d) ==
    CASE d = "City" -> {"CityID", "CityPop"}
      [] d = "Country" -> {"CountryPop"}
      [] d = "Language" -> {}

SetOf(seq) == {seq[i] : i \in 1..Len(seq)}

\* C2: From(dataset) with a successful load yields the dataset's fixed header,
\* and its numeric-column set is City {CityID, CityPop}, Country {CountryPop},
\* Language {}.
C2_FromYieldsSchema ==
    (chain # <<>> /\ IsOk(1)) =>
        /\ results[1].header = column_names(chain[1].dataset)
        /\ SetOf(results[1].numeric_columns) = C2_NumericSubset(chain[1].dataset)

\* C3: in every Table returned for any chain, every row has exactly as many
\* cells as the header has names.
C3_RowsMatchHeader ==
    \A i \in Evaluated :
        IsOk(i) =>
            \A r \in 1..Len(results[i].rows) :
                Len(results[i].rows[r]) = Len(results[i].header)

\* C3 witness: a JOIN followed by a SELECT returned a table with rows and columns.
C3_Witness ==
    /\ Len(chain) = 3
    /\ chain[2].verb = "JOIN"
    /\ chain[3].verb = "SELECT"
    /\ IsOk(3)
    /\ Len(results[2].rows) >= 2
    /\ Len(results[2].header) > Len(column_names(chain[1].dataset))
    /\ Len(results[3].rows) >= 2
    /\ Len(results[3].header) = 2

\* C4: in every Table returned for any chain, every name in numeric_columns
\* appears in header.
C4_NumericInHeader ==
    \A i \in Evaluated :
        IsOk(i) => SetOf(results[i].numeric_columns) \subseteq SetOf(results[i].header)

\* C4 witness: a SELECT that dropped a numeric column and a COUNTBY on its
\* output both returned tables with numeric columns.
C4_Witness ==
    /\ Len(chain) = 3
    /\ chain[2].verb = "SELECT"
    /\ chain[3].verb = "COUNTBY"
    /\ IsOk(3)
    /\ Len(results[2].numeric_columns) < Len(results[1].numeric_columns)
    /\ results[2].numeric_columns # <<>>
    /\ Len(results[3].numeric_columns) = 2

\* C5: Take(Take(chain, n), m) returns exactly min(n, m, r) rows, r being the
\* row count of chain's table.
C5_TakeTakeBound ==
    \A i \in Evaluated :
        (i >= 2 /\ i < Len(chain) /\ chain[i].verb = "TAKE"
              /\ chain[i + 1].verb = "TAKE" /\ IsOk(i - 1)) =>
            /\ IsOk(i + 1)
            /\ Len(results[i + 1].rows) =
                  Min(Min(chain[i].count, chain[i + 1].count), Len(InputOf(i).rows))

\* C5 witness: two TAKEs where the outer count is the smallest of the three.
C5_Witness ==
    /\ Len(chain) = 3
    /\ chain[2].verb = "TAKE"
    /\ chain[3].verb = "TAKE"
    /\ IsOk(3)
    /\ chain[3].count = 1
    /\ chain[2].count = 2
    /\ Len(results[1].rows) = 3
    /\ Len(results[3].rows) = 1

\* C6: Take(chain, count) returns the first min(count, r) rows of its input,
\* unchanged and in order, with the input's header and numeric_columns.
C6_TakeFirstRows ==
    \A i \in Evaluated :
        (i >= 2 /\ chain[i].verb = "TAKE" /\ IsOk(i - 1)) =>
            /\ IsOk(i)
            /\ Len(results[i].rows) = Min(chain[i].count, Len(InputOf(i).rows))
            /\ \A r \in 1..Len(results[i].rows) :
                  results[i].rows[r] = InputOf(i).rows[r]
            /\ results[i].header = InputOf(i).header
            /\ results[i].numeric_columns = InputOf(i).numeric_columns

\* C6 witness: a TAKE that cut a table of distinct rows short.
C6_Witness ==
    /\ Len(chain) = 2
    /\ chain[2].verb = "TAKE"
    /\ IsOk(2)
    /\ chain[2].count = 2
    /\ Len(results[1].rows) = 3
    /\ results[1].rows[1] # results[1].rows[3]
    /\ results[2].numeric_columns # <<>>

\* C7: when OrderBy(chain, column) succeeds, each output row's integer value at
\* the column is >= that of the row after it.
C7_OrderByNonIncreasing ==
    \A i \in Evaluated :
        (i >= 2 /\ chain[i].verb = "ORDERBY" /\ IsOk(i)) =>
            LET idx == find_column_index_by_name(results[i].header, chain[i].column)
                rows == results[i].rows
            IN  /\ idx > 0
                /\ \A r \in 1..(Len(rows) - 1) :
                      /\ rows[r][idx].tag = "Int64"
                      /\ rows[r + 1][idx].tag = "Int64"
                      /\ rows[r][idx].n >= rows[r + 1][idx].n

\* C7 witness: an ORDERBY that had to move rows returned a table.
C7_Witness ==
    /\ Len(chain) = 2
    /\ chain[2].verb = "ORDERBY"
    /\ IsOk(2)
    /\ Len(results[2].rows) = 3
    /\ results[2].rows # results[1].rows

\* C8: OrderBy(OrderBy(chain, c), c) returns exactly the table OrderBy(chain, c)
\* returns, rows of equal c value in the same order.
C8_OrderByIdempotent ==
    \A i \in Evaluated :
        (i >= 2 /\ i < Len(chain) /\ chain[i].verb = "ORDERBY"
              /\ chain[i + 1] = chain[i] /\ IsOk(i)) =>
            results[i + 1] = results[i]

\* C8 witness: ORDERBY twice on a column in which two different rows tie and
\* which the first ORDERBY had to reorder.
C8_Witness ==
    /\ Len(chain) = 3
    /\ chain[2].verb = "ORDERBY"
    /\ chain[3] = chain[2]
    /\ IsOk(3)
    /\ results[2].rows # results[1].rows
    /\ LET idx == find_column_index_by_name(results[2].header, chain[2].column)
       IN  \E r \in 1..(Len(results[2].rows) - 1) :
              /\ results[2].rows[r][idx] = results[2].rows[r + 1][idx]
              /\ results[2].rows[r] # results[2].rows[r + 1]

RECURSIVE SumOfCounts(_)
SumOfCounts(rows) ==
    IF rows = <<>> THEN 0 ELSE Head(rows)[2].n + SumOfCounts(Tail(rows))

\* C9: a table returned by CountBy(chain, column) is the histogram of the input:
\* each distinct input value of the column is in exactly one output row, whose
\* count cell is the number of input rows holding that value; the counts sum
\* to the input row count; an empty input gives no rows.
C9_CountByHistogram ==
    \A i \in Evaluated :
        (i >= 2 /\ chain[i].verb = "COUNTBY" /\ IsOk(i)) =>
            LET input == InputOf(i)
                idx == find_column_index_by_name(input.header, chain[i].column)
                out == results[i].rows
                holding(cell) ==
                    {r \in 1..Len(input.rows) : input.rows[r][idx] = cell}
            IN  /\ input.kind = "Ok"
                /\ idx > 0
                /\ \A r \in 1..Len(input.rows) :
                      Cardinality({k \in 1..Len(out) :
                                      out[k][1] = input.rows[r][idx]}) = 1
                /\ \A k \in 1..Len(out) :
                      /\ Len(out[k]) = 2
                      /\ holding(out[k][1]) # {}
                      /\ out[k][2] = CellInt64(Cardinality(holding(out[k][1])))
                /\ SumOfCounts(out) = Len(input.rows)
                /\ (input.rows = <<>> => out = <<>>)

\* C9 witness: a COUNTBY returned several groups, one of them of two rows.
C9_Witness ==
    /\ Len(chain) = 2
    /\ chain[2].verb = "COUNTBY"
    /\ IsOk(2)
    /\ Len(results[1].rows) = 3
    /\ Len(results[2].rows) = 2
    /\ \E k \in 1..2 : results[2].rows[k][2].n = 2

\* C10: the rows of a table returned by CountBy are sorted by the count cell
\* (the second column) in descending order, whatever the position and cell type
\* of the counted column in the input.
C10_CountBySortedByCount ==
    \A i \in Evaluated :
        (i >= 2 /\ chain[i].verb = "COUNTBY" /\ IsOk(i)) =>
            \A k \in 1..(Len(results[i].rows) - 1) :
                results[i].rows[k][2].n >= results[i].rows[k + 1][2].n

\* The chain a node at position i wraps: its predecessor chain.
ChainBefore(i) == SubSeq(chain, 1, i - 1)

\* The table the loader handed to the JOIN at node i when its load succeeded.
RightOf(i) == load_dataset(files, chain[i].dataset, "JOIN", TRUE)

C12_SelectProjects ==
    \A i \in Evaluated :
        (i >= 2 /\ chain[i].verb = "SELECT" /\ IsOk(i)) =>
            LET input == InputOf(i)
                names == chain[i].column_names
                out == results[i]
            IN  /\ input.kind = "Ok"
                /\ out.header = names
                /\ Len(out.rows) = Len(input.rows)
                /\ \A r \in 1..Len(out.rows) :
                      /\ Len(out.rows[r]) = Len(names)
                      /\ \A k \in 1..Len(names) :
                            out.rows[r][k] =
                                input.rows[r][find_column_index_by_name(input.header,
                                                                        names[k])]
                /\ SetOf(out.numeric_columns) =
                      SetOf(names) \cap SetOf(input.numeric_columns)

\* C12 witness: a SELECT that reorders columns, on a joined table that holds
\* the selected names twice with different cells.
C12_Witness ==
    /\ Len(chain) = 3
    /\ chain[2].verb = "JOIN"
    /\ chain[3].verb = "SELECT"
    /\ IsOk(3)
    /\ chain[3].column_names = <<"CityPop", "CityID">>
    /\ Len(results[3].rows) >= 2
    /\ LET header == results[2].header
           first == find_column_index_by_name(header, "CityID")
       IN  \E j \in (first + 1)..Len(header) :
              /\ header[j] = "CityID"
              /\ \E r \in 1..Len(results[2].rows) :
                    results[2].rows[r][j] # results[2].rows[r][first]

\* C13: Select with a requested name that is absent from its input's header
\* returns NoSuchColumn and no table; the error names the verb Select, the first
\* absent name in requested order, and the predecessor chain, without the
\* failing SELECT.
C13_SelectNoSuchColumn ==
    \A i \in Evaluated :
        (i >= 2 /\ chain[i].verb = "SELECT" /\ IsOk(i - 1)) =>
            LET names == chain[i].column_names
                missing == {k \in 1..Len(names) : ~Contains(InputOf(i).header, names[k])}
                first == CHOOSE k \in missing : \A j \in missing : k <= j
            IN  missing # {} =>
                    /\ results[i].kind = "Err"
                    /\ results[i].rows = <<>>
                    /\ results[i].header = <<>>
                    /\ results[i].error.type = "NoSuchColumn"
                    /\ results[i].error.operator = "Select"
                    /\ results[i].error.column_name = names[first]
                    /\ results[i].error.chain = ChainBefore(i)

\* C13 witness: a SELECT of two names, both absent from its input, after a
\* chain of two verbs, was answered with the first of them.
C13_Witness ==
    /\ Len(chain) = 3
    /\ chain[3].verb = "SELECT"
    /\ IsOk(2)
    /\ chain[3].column_names = <<"CityPop", "CityID">>
    /\ ~Contains(results[2].header, "CityPop")
    /\ ~Contains(results[2].header, "CityID")
    /\ results[3].error.type = "NoSuchColumn"
    /\ results[3].error.column_name = "CityPop"
    /\ Len(results[3].error.chain) = 2

\* C14: Join on a column that is missing from the left table's header or from
\* the freshly loaded right table's header, or from both, returns NoSuchColumn
\* with the verb JOIN, the column name and the left predecessor chain, and no
\* table.
C14_JoinNoSuchColumn ==
    \A i \in Evaluated :
        (i >= 2 /\ chain[i].verb = "JOIN" /\ IsOk(i - 1)
              /\ results[i].error.type # "CSVError"
              /\ \/ ~Contains(InputOf(i).header, chain[i].column)
                 \/ ~Contains(RightOf(i).header, chain[i].column)) =>
            /\ results[i].kind = "Err"
            /\ results[i].rows = <<>>
            /\ results[i].header = <<>>
            /\ results[i].error.type = "NoSuchColumn"
            /\ results[i].error.operator = "JOIN"
            /\ results[i].error.column_name = chain[i].column
            /\ results[i].error.chain = ChainBefore(i)

\* C14 witness: a JOIN on a column that only the left table has, after a chain
\* of two verbs, with the right dataset loaded.
C14_Witness ==
    /\ Len(chain) = 3
    /\ chain[3].verb = "JOIN"
    /\ IsOk(2)
    /\ Contains(results[2].header, chain[3].column)
    /\ ~Contains(RightOf(3).header, chain[3].column)
    /\ results[3].error.type = "NoSuchColumn"
    /\ Len(results[3].error.chain) = 2

LoadedAt(i) == results[i].error.type # "CSVError"

\* What evaluating node i again can return, given the same input table and a
\* loader that answers as it did the first time.
Reevaluations(i) ==
    LET op == chain[i]
        input == IF i = 1 THEN Failure("Err", NoError) ELSE InputOf(i)
    IN  CASE op.verb = "FROM" -> {process_from(files, op.dataset, LoadedAt(1))}
          [] op.verb = "TAKE" -> {process_take(input, op.count)}
          [] op.verb = "SELECT" -> {process_select(input, ChainBefore(i), op.column_names)}
          [] op.verb = "ORDERBY" -> {process_orderby(input, ChainBefore(i), op.column)}
          [] op.verb = "COUNTBY" ->
                {process_countby(input, ChainBefore(i), op.column, order) :
                    order \in CountByOrders(input, op.column)}
          [] op.verb = "JOIN" ->
                {process_join(input, ChainBefore(i),
                              IF input.kind = "Ok"
                              THEN load_dataset(files, op.dataset, "JOIN", LoadedAt(i))
                              ELSE input,
                              op.column)}

\* C16: evaluation is deterministic: evaluating the same chain again, against a
\* loader that returns the same tables, yields the identical outcome, also for
\* chains with a COUNTBY whose groups have equal counts.
C16_Deterministic ==
    \A i \in Evaluated : Reevaluations(i) = {results[i]}

\* The nodes of the chain that are JOIN verbs.
JoinNodes == {i \in Evaluated : chain[i].verb = "JOIN"}

\* C17 as stated: the loader is called at most three times during the
\* evaluation of a chain, however many JOIN verbs the chain has.
C17_AtMostThreeLoads == loads <= 3

\* C17 amended: the loader is called once for the FROM leaf and once for every
\* JOIN whose left chain returned a table, hence at most 1 + (number of JOIN
\* verbs) times.
C17_OneLoadPerLeafReached ==
    /\ loads = Cardinality({i \in Evaluated :
                               chain[i].verb = "FROM"
                                  \/ (chain[i].verb = "JOIN" /\ IsOk(i - 1))})
    /\ loads <= 1 + Cardinality(JoinNodes)

\* C17 witness: a chain of three JOINs, all of which returned a table, was
\* evaluated with four loads.
C17_Witness ==
    /\ Len(chain) = 4
    /\ Cardinality(JoinNodes) = 3
    /\ IsOk(4)
    /\ results[4].rows # <<>>
    /\ loads = 4

----------------------------------------------------------------------------
(* Properties of the parser *)

\* parse_command has returned.
Returned == command.kind \notin {"Unparsed", "Parsing"}

\* The line is exactly `help` or `exit` followed by the newline.
ExactlyHelpOrExit ==
    line.form = "plain" /\ line.tokens \in {<<Token("help")>>, <<Token("exit")>>}

\* The line ends with a newline and its first token is not FROM.
FirstTokenNotFrom ==
    /\ line.form # "unterminated"
    /\ line.tokens # <<>>
    /\ line.tokens[1] # Token("FROM")

\* C18 as stated: a line, other than exactly help or exit, whose first token
\* is not FROM, and a line with zero tokens, is reported as Command::InputError
\* and produces no operator chain.
C18_NotFromIsInputError ==
    (Returned /\ ~ExactlyHelpOrExit /\ line.form # "unterminated"
          /\ (line.tokens = <<>> \/ FirstTokenNotFrom)) =>
        /\ command.kind = "InputError"
        /\ command.operator = <<>>

\* C18 amended: a line, other than exactly help or exit, whose first token is
\* not FROM is reported as Command::InputError and produces no operator chain,
\* whatever verb it starts with and whatever follows the verb; a line with zero
\* tokens, like a line without the final newline, is reported as
\* Command::NoInput, also without a chain.
C18_NotFromIsInputErrorEmptyIsNoInput ==
    Returned =>
        /\ (~ExactlyHelpOrExit /\ FirstTokenNotFrom) =>
              /\ command.kind = "InputError"
              /\ command.operator = <<>>
        /\ (line.tokens = <<>> \/ line.form = "unterminated") =>
              command = CommandNoInput

\* C18 witness: a line that starts with TAKE and a count was rejected.
C18_Witness ==
    /\ Returned
    /\ Len(line.tokens) >= 2
    /\ line.tokens[1] = Token("TAKE")
    /\ line.tokens[2] = Token("2")
    /\ command.kind = "InputError"

\* The token FROM occurs again after a first FROM.
SecondFrom ==
    /\ line.tokens # <<>>
    /\ line.tokens[1] = Token("FROM")
    /\ \E k \in 2..Len(line.tokens) : line.tokens[k] = Token("FROM")

\* C19 as stated: a line in which the token FROM occurs a second time, at any
\* position after the first verb, is rejected with an input error.
C19_SecondFromRejected ==
    (Returned /\ line.form # "unterminated" /\ SecondFrom) =>
        command.kind = "InputError"

\* C19 amended: a FROM that parse_operators reads where it expects a verb,
\* after the chain has been started, is rejected with "FROM must always be the
\* first operator."; a FROM that follows SELECT, ORDERBY or COUNTBY is taken as
\* the argument of that verb, the verb is chained and parsing goes on.
C19_SecondFromRejectedAsVerb ==
    [][/\ (AtVerb("FROM") /\ parse_chain # <<>>) =>
             command' = CommandInputError(
                            Message("FROM must always be the first operator.", None, <<>>))
       /\ \A word \in {"SELECT", "ORDERBY", "COUNTBY"} :
             (AtVerb(word) /\ parse_chain # <<>>
                   /\ NextToken(line.tokens, token_iter + 1) = Token("FROM")) =>
                 /\ command' = Parsing
                 /\ token_iter' = token_iter + 2
                 /\ Len(parse_chain') = Len(parse_chain) + 1
                 /\ Last(parse_chain').verb = word
      ]_vars

\* C19 witness: the line FROM city.csv FROM city.csv was rejected at its
\* second FROM.
C19_Witness ==
    /\ Returned
    /\ line.tokens = <<Token("FROM"), Token("city.csv"), Token("FROM"), Token("city.csv")>>
    /\ token_iter = 3
    /\ parse_chain = <<OpFrom("City")>>
    /\ command.kind = "InputError"
    /\ command.message.text = "FROM must always be the first operator."

\* A JOIN, read as a verb on top of a chain, was rejected for its dataset
\* token: the iterator still stands at the JOIN.
JoinDatasetRejected ==
    /\ command.kind = "InputError"
    /\ token_iter <= Len(line.tokens)
    /\ line.tokens[token_iter] = Token("JOIN")
    /\ parse_chain # <<>>
    /\ DatasetOfToken(NextToken(line.tokens, token_iter + 1)) = ""

\* The error of the same JOIN on the same chain when its dataset token is
\* valid and the column-name token is missing.
JoinColumnMissingError ==
    parse_join(Append(SubSeq(line.tokens, 1, token_iter), Token("city.csv")),
               token_iter + 1, parse_chain).message

\* C20 as stated: when parsing JOIN, a missing dataset token and an
\* unrecognized dataset token each produce an error different from the one
\* produced when the dataset token is valid but the column-name token is missing.
C20_JoinDatasetErrorDistinct ==
    JoinDatasetRejected => command.message # JoinColumnMissingError

\* C20 amended: an unrecognized dataset token produces the error "Invalid
\* dataset to JOIN on: <token>", different from the error for a missing
\* column-name token; a missing dataset token produces the same error as a
\* missing column-name token.
C20_JoinUnrecognizedDistinctMissingSame ==
    JoinDatasetRejected =>
        IF NextToken(line.tokens, token_iter + 1) = None
        THEN command.message = JoinColumnMissingError
        ELSE /\ command.message # JoinColumnMissingError
             /\ command.message =
                   Message("Invalid dataset to JOIN on: {}",
                           line.tokens[token_iter + 1], <<>>)

\* C20 witness: FROM city.csv JOIN CityPop was rejected for its dataset token.
C20_Witness ==
    /\ JoinDatasetRejected
    /\ line.tokens = <<Token("FROM"), Token("city.csv"), Token("JOIN"), Token("CityPop")>>
    /\ command.message.token = Token("CityPop")

----------------------------------------------------------------------------
(* Further properties of the evaluator *)

\* C21: in every Table produced by any chain, for every name in
\* numeric_columns the cell at the name's first-match header index is an Int64
\* in every row, never a String or an OptInt64.
C21_NumericCellsInt64 ==
    \A i \in Evaluated :
        IsOk(i) =>
            \A k \in 1..Len(results[i].numeric_columns) :
                LET idx == find_column_index_by_name(results[i].header,
                                                     results[i].numeric_columns[k])
                IN  \A r \in 1..Len(results[i].rows) :
                        /\ idx > 0
                        /\ results[i].rows[r][idx].tag = "Int64"

\* C22: OrderBy is a stable permutation: a table it returns holds exactly the
\* input rows, none added, dropped or altered; rows of equal value in the sort
\* column keep their relative input order; header and numeric_columns are
\* those of the input.
C22_OrderByStablePermutation ==
    \A i \in Evaluated :
        (i >= 2 /\ chain[i].verb = "ORDERBY" /\ IsOk(i)) =>
            LET input == InputOf(i)
                out == results[i]
                idx == find_column_index_by_name(input.header, chain[i].column)
                keys == {input.rows[r][idx] : r \in 1..Len(input.rows)}
                        \cup {out.rows[r][idx] : r \in 1..Len(out.rows)}
                holding(rows, key) == SelectSeq(rows, LAMBDA row : row[idx] = key)
            IN  /\ out.header = input.header
                /\ out.numeric_columns = input.numeric_columns
                /\ Len(out.rows) = Len(input.rows)
                /\ \A key \in keys : holding(out.rows, key) = holding(input.rows, key)

\* C22 witness: an ORDERBY moved rows of a joined table in which different
\* rows hold the same value in the sort column.
C22_Witness ==
    /\ Len(chain) = 3
    /\ chain[2].verb = "JOIN"
    /\ chain[3].verb = "ORDERBY"
    /\ IsOk(3)
    /\ results[3].rows # results[2].rows
    /\ LET idx == find_column_index_by_name(results[2].header, chain[3].column)
       IN  \E a, b \in 1..Len(results[2].rows) :
              /\ a < b
              /\ results[2].rows[a][idx] = results[2].rows[b][idx]
              /\ results[2].rows[a] # results[2].rows[b]

\* C23: when the predecessor chain of an operator returns an error, the
\* operator returns exactly that error, with the verb, column and chain of the
\* innermost failing operator, and does nothing else: no table is returned and
\* a Join whose left chain failed does not load its right dataset.
C23_FirstFailureWins ==
    /\ \A i \in Evaluated :
          (i >= 2 /\ results[i - 1].kind = "Err") =>
              /\ results[i] = results[i - 1]
              /\ results[i].rows = <<>>
              /\ results[i].header = <<>>
    /\ loads <= 1 + Cardinality({i \in Evaluated :
                                    chain[i].verb = "JOIN" /\ results[i - 1].kind # "Err"})

\* C23 witness: a SELECT failed on a loaded table and the JOIN wrapped around
\* it returned the SELECT's error without loading.
C23_Witness ==
    /\ Len(chain) = 3
    /\ IsOk(1)
    /\ chain[2].verb = "SELECT"
    /\ results[2].error.type = "NoSuchColumn"
    /\ chain[3].verb = "JOIN"
    /\ results[3].error.operator = "Select"
    /\ results[3].error.chain = <<chain[1]>>
    /\ loads = 1

\* C24: loaded tables are not cached: an evaluation that succeeds has called
\* the loader once for the From leaf and once for each Join node, 1 + (number
\* of JOINs) times in all, also when a dataset is named more than once; and
\* the loader is called for a Join only once its left chain has returned a table.
C24_NoCaching ==
    /\ [](  (chain # <<>> /\ IsOk(Len(chain))) =>
               loads = 1 + Cardinality(JoinNodes)  )
    /\ [][ (chain # <<>> /\ loads' # loads) =>
               (Last(results).kind = "Ok" /\ loads' = loads + 1) ]_vars

\* C24 witness: city.csv was joined twice to FROM city.csv and loaded three
\* times.
C24_Witness ==
    /\ Len(chain) = 3
    /\ \A i \in 1..3 : chain[i].dataset = "City"
    /\ IsOk(3)
    /\ results[3].rows # <<>>
    /\ loads = 3

\* C25: when Join(chain, right, column) succeeds, the output header is the left
\* header followed by the right header without the join column name, and the
\* output numeric columns are the left numeric columns followed by the right
\* numeric columns without the join column name, so that a join column that is
\* numeric on the left stays numeric.
C25_JoinHeader ==
    \A i \in Evaluated :
        (i >= 2 /\ chain[i].verb = "JOIN" /\ IsOk(i)) =>
            LET column == chain[i].column
                kept(names) == {k \in 1..Len(names) : names[k] # column}
                rank(names, k) == Cardinality({j \in kept(names) : j <= k})
                follows(out, left, right) ==
                    /\ Len(out) = Len(left) + Cardinality(kept(right))
                    /\ \A k \in 1..Len(left) : out[k] = left[k]
                    /\ \A k \in kept(right) : out[Len(left) + rank(right, k)] = right[k]
            IN  /\ follows(results[i].header, InputOf(i).header, RightOf(i).header)
                /\ follows(results[i].numeric_columns, InputOf(i).numeric_columns,
                           RightOf(i).numeric_columns)
                /\ Contains(InputOf(i).numeric_columns, column)
                      => Contains(results[i].numeric_columns, column)

\* C25 witness: a JOIN on CityPop, numeric on both sides and not the first
\* column of the right table, returned a table.
C25_Witness ==
    /\ Len(chain) = 2
    /\ chain[2].verb = "JOIN"
    /\ chain[2].column = "CityPop"
    /\ IsOk(2)
    /\ results[2].rows # <<>>
    /\ Contains(results[1].numeric_columns, "CityPop")
    /\ Contains(RightOf(2).numeric_columns, "CityPop")
    /\ Len(results[2].numeric_columns) = 3

\* C26: a table returned by CountBy(chain, column) has the header
\* [column, "count"] and the numeric columns [column, "count"] if column is in
\* the input's numeric-column set and ["count"] otherwise, also when the input
\* table is empty.
C26_CountByHeader ==
    \A i \in Evaluated :
        (i >= 2 /\ chain[i].verb = "COUNTBY" /\ IsOk(i)) =>
            /\ results[i].header = <<chain[i].column, "count">>
            /\ \/ /\ \E k \in 1..Len(InputOf(i).numeric_columns) :
                        InputOf(i).numeric_columns[k] = chain[i].column
                  /\ results[i].numeric_columns = <<chain[i].column, "count">>
               \/ /\ \A k \in 1..Len(InputOf(i).numeric_columns) :
                        InputOf(i).numeric_columns[k] # chain[i].column
                  /\ results[i].numeric_columns = <<"count">>

\* C26 witness: a COUNTBY on a numeric column returned several groups.
C26_Witness ==
    /\ Len(chain) = 2
    /\ chain[2].verb = "COUNTBY"
    /\ IsOk(2)
    /\ Contains(results[1].numeric_columns, chain[2].column)
    /\ Len(results[2].rows) >= 2
    /\ Len(results[2].numeric_columns) = 2

----------------------------------------------------------------------------
(* Further properties of the parser *)

\* The line was accepted: parse_command returned Command::Operator.
Accepted == command.kind = "Operator"

\* Where the verb of node j of an accepted chain stands in the line: FROM and
\* every verb but JOIN take two tokens, JOIN takes three.
VerbIndex(j) ==
    1 + 2 * (j - 1)
      + Cardinality({m \in 1..(j - 1) : command.operator[m].verb = "JOIN"})

\* C27: for every accepted token sequence FROM d v1 args1 ... vk argsk the
\* parser returns a chain with From(d) as its single innermost leaf and the k
\* verbs in input order, vk outermost, every node wrapping the chain of the
\* verbs to its left and holding its arguments as given.
C27_ChainInInputOrder ==
    Accepted =>
        LET op == command.operator
            tokens == line.tokens
        IN  /\ op # <<>>
            /\ Len(tokens) = VerbIndex(Len(op) + 1) - 1
            /\ \A j \in 1..Len(op) :
                  LET v == VerbIndex(j)
                  IN  /\ tokens[v] = Token(op[j].verb)
                      /\ (op[j].verb = "FROM") = (j = 1)
                      /\ op[j].verb \in {"FROM", "JOIN"} =>
                            op[j].dataset = DatasetOfToken(tokens[v + 1])
                      /\ op[j].verb = "SELECT" =>
                            op[j].column_names = SplitColumns(tokens[v + 1])
                      /\ op[j].verb = "TAKE" =>
                            op[j].count = ParseUsize(tokens[v + 1])
                      /\ op[j].verb \in {"ORDERBY", "COUNTBY"} =>
                            op[j].column = tokens[v + 1]
                      /\ op[j].verb = "JOIN" => op[j].column = tokens[v + 2]

\* C27 witness: FROM city.csv TAKE 2 ORDERBY CityPop was accepted.
C27_Witness ==
    /\ Accepted
    /\ line.tokens = <<Token("FROM"), Token("city.csv"), Token("TAKE"), Token("2"),
                       Token("ORDERBY"), Token("CityPop")>>
    /\ Len(command.operator) = 3
    /\ command.operator[3].verb = "ORDERBY"

\* seq ends with the tokens of `tail`.
EndsWith(seq, tail) ==
    /\ Len(tail) <= Len(seq)
    /\ SubSeq(seq, Len(seq) - Len(tail) + 1, Len(seq)) = tail

\* C28: a verb takes the token after it as its argument without testing it for
\* being a verb keyword, and parsing resumes at the token after the argument;
\* as in `... ORDERBY TAKE 7 ...`, where TAKE becomes the ORDERBY column and 7
\* is read as a verb: a token that is no verb where a verb is expected aborts
\* parsing with an error that contains the remaining token sequence (it holds
\* the whole token list of the line).
C28_GreedyArguments ==
    [][/\ \A word \in {"SELECT", "ORDERBY", "COUNTBY"} :
             (AtVerb(word) /\ parse_chain # <<>>
                   /\ NextToken(line.tokens, token_iter + 1) # None) =>
                 /\ command' = Parsing
                 /\ token_iter' = token_iter + 2
                 /\ SubSeq(parse_chain', 1, Len(parse_chain)) = parse_chain
                 /\ Len(parse_chain') = Len(parse_chain) + 1
                 /\ Last(parse_chain').verb = word
                 /\ word = "SELECT" =>
                       Last(parse_chain').column_names =
                           SplitColumns(line.tokens[token_iter + 1])
                 /\ word # "SELECT" =>
                       Last(parse_chain').column = line.tokens[token_iter + 1]
       /\ (command = Parsing /\ token_iter <= Len(line.tokens)
               /\ \A word \in Verbs : line.tokens[token_iter] # Token(word)) =>
             /\ command'.kind = "InputError"
             /\ command'.message.text = "Invalid Input: {}"
             /\ command'.message.tokens = line.tokens
             /\ EndsWith(command'.message.tokens,
                         SubSeq(line.tokens, token_iter, Len(line.tokens)))
      ]_vars

\* C28 witness: in FROM city.csv ORDERBY TAKE 2 SELECT the token TAKE became
\* the ORDERBY column and parsing was aborted at the 2.
C28_Witness ==
    /\ line.tokens = <<Token("FROM"), Token("city.csv"), Token("ORDERBY"), Token("TAKE"),
                       Token("2"), Token("SELECT")>>
    /\ command.kind = "InputError"
    /\ token_iter = 5
    /\ parse_chain = <<OpFrom("City"), OpOrderBy(Token("TAKE"))>>
    /\ command.message = InvalidInput(line.tokens)

\* Where the verb of node j of the chain built so far stands in the line.
VerbIndexOfParsed(j) ==
    1 + 2 * (j - 1)
      + Cardinality({m \in 1..(j - 1) : parse_chain[m].verb = "JOIN"})

\* C29: a SELECT argument is split on commas and its empty pieces are dropped;
\* an argument without a non-empty name, such as `,`, is accepted as an empty
\* selection, and evaluating such a Select succeeds with a table of empty
\* header, empty numeric columns and as many rows as its input, each of zero
\* cells.
C29_EmptySelection ==
    /\ \A j \in 2..Len(parse_chain) :
          parse_chain[j].verb = "SELECT" =>
              LET pieces == line.tokens[VerbIndexOfParsed(j) + 1]
                  names == parse_chain[j].column_names
                  kept == {k \in 1..Len(pieces) : pieces[k] # ""}
                  rank(k) == Cardinality({m \in kept : m <= k})
              IN  /\ Len(names) = Cardinality(kept)
                  /\ \A k \in kept : names[rank(k)] = pieces[k]
    /\ (Returned /\ Len(line.tokens) = 4 /\ line.tokens[3] = Token("SELECT")) =>
          (Accepted /\ Len(command.operator) = 2)
    /\ \A i \in Evaluated :
          (i >= 2 /\ chain[i].verb = "SELECT" /\ chain[i].column_names = <<>>
                /\ IsOk(i - 1)) =>
              /\ IsOk(i)
              /\ results[i].header = <<>>
              /\ results[i].numeric_columns = <<>>
              /\ Len(results[i].rows) = Len(InputOf(i).rows)
              /\ \A r \in 1..Len(results[i].rows) : results[i].rows[r] = <<>>

\* C29 witness: FROM city.csv SELECT , was accepted and evaluated on three
\* cities.
C29_Witness ==
    /\ line.tokens = <<Token("FROM"), Token("city.csv"), Token("SELECT"), <<"", "">>>>
    /\ Accepted
    /\ Len(chain) = 2
    /\ chain[2] = OpSelect(<<>>)
    /\ IsOk(2)
    /\ Len(results[2].rows) = 3

\* The parser as a function returns what its steps leave in `command`.
ParseLineIsTheLoop == Returned => command = ParseLine(line)

\* Every SELECT of the chain has at least one column name.
EverySelectNamed(ch) ==
    \A j \in 1..Len(ch) : ch[j].verb = "SELECT" => ch[j].column_names # <<>>

\* C30: for every chain the parser produces in which every SELECT has at
\* least one column name, parsing the rendering of the chain followed by a
\* newline gives back the chain.
C30_RenderParseRoundTrip ==
    (Accepted /\ EverySelectNamed(command.operator)) =>
        ParseLine(LineOfText(Display(command.operator)))
            = CommandOperator(command.operator)

\* C30 witness: a chain of SELECT, JOIN and TAKE whose rendering is not the
\* line it was parsed from.
C30_Witness ==
    /\ line.tokens = <<Token("FROM"), Token("city.csv"),
                       Token("SELECT"), <<"", "CityPop">>,
                       Token("ORDERBY"), Token("TAKE")>>
    /\ Accepted
    /\ Display(command.operator) # line.tokens
    /\ Display(command.operator)[4] = Token("CityPop")

\* Without a column name the rendering of a SELECT does not parse back.
C30_EmptySelectionLost ==
    (Accepted /\ ~EverySelectNamed(command.operator)) =>
        ParseLine(LineOfText(Display(command.operator)))
            # CommandOperator(command.operator)

====
